---- MODULE Spec2Model ----
(***************************************************************************)
(* A model of LTool.py, the Linux System Manager: distro / package-manager *)
(* selection (SystemManager), the command runner (run_command), the four   *)
(* maintenance step lists and the sequential operation runner              *)
(* (MaintenanceOperations), and the thread-per-click GUI                   *)
(* (SystemManagerGUI.run_operation).                                       *)
(*                                                                         *)
(* Python str values are TLA+ strings (Len, \o and SubSeq act on them as   *)
(* len, + and slicing do).  A float progress value p is kept exactly, as   *)
(* the fraction num/den, and compared by cross-multiplication.             *)
(***************************************************************************)
EXTENDS Integers, Sequences, FiniteSets, TLC

(***************************************************************************)
(* Bounds of the model.                                                    *)
(***************************************************************************)
MaxCommands == 2     \* commands launched in one behaviour of Spec
MaxSteps == 3        \* length of the step list handed to the runner in SpecRun
MaxOutLen == 202     \* longest captured output in SpecTrunc

(***************************************************************************)
(* SystemManager.__init__: the priority list of managers of every          *)
(* supported distribution.                                                 *)
(***************************************************************************)
Distros == {"ubuntu", "debian", "fedora", "centos", "arch", "opensuse", "unknown"}

Managers == {"apt", "apt-get", "dnf", "yum", "pacman", "zypper"}

supported_distros ==
    [ubuntu   |-> <<"apt", "apt-get">>,
     debian   |-> <<"apt", "apt-get">>,
     fedora   |-> <<"dnf", "yum">>,
     centos   |-> <<"yum", "dnf">>,
     arch     |-> <<"pacman">>,
     opensuse |-> <<"zypper">>]

\* command_exists(command): `which command` exits 0 iff the executable is on
\* the path; installed is the set of executables on the path.
command_exists(installed, command) == command \in installed

RECURSIVE FirstExisting(_, _, _)
\* the for loop of get_package_manager from position k of the list pms
FirstExisting(installed, pms, k) ==
    IF k > Len(pms) THEN "apt"
    ELSE IF command_exists(installed, pms[k]) THEN pms[k]
    ELSE FirstExisting(installed, pms, k + 1)

\* the first manager of the list, on the path or not
get_package_manager_unchecked(d, installed) ==
    IF d \in DOMAIN supported_distros THEN supported_distros[d][1] ELSE "apt"

get_package_manager(d, installed) ==
    IF d \in DOMAIN supported_distros
    THEN FirstExisting(installed, supported_distros[d], 1)
    ELSE "apt"

(***************************************************************************)
(* The step lists.  A step is <<command, description>>, a command is the   *)
(* sequence of its argument tokens.                                        *)
(***************************************************************************)
Step(command, description) == <<command, description>>

update_operations(pm) ==
    IF pm \in {"apt", "apt-get"} THEN
        << Step(<<"sudo", "apt", "update">>, "Updating package lists..."),
           Step(<<"sudo", "apt", "upgrade", "-y">>, "Upgrading packages..."),
           Step(<<"sudo", "apt", "dist-upgrade", "-y">>, "Distribution upgrade..."),
           Step(<<"sudo", "apt", "autoremove", "-y">>, "Removing unused packages..."),
           Step(<<"sudo", "apt", "autoclean">>, "Cleaning package cache...") >>
    ELSE IF pm \in {"dnf", "yum"} THEN
        << Step(<<"sudo", "dnf", "check-update">>, "Checking for updates..."),
           Step(<<"sudo", "dnf", "upgrade", "-y">>, "Upgrading packages..."),
           Step(<<"sudo", "dnf", "autoremove", "-y">>, "Removing unused packages..."),
           Step(<<"sudo", "dnf", "clean", "all">>, "Cleaning package cache...") >>
    ELSE IF pm = "pacman" THEN
        << Step(<<"sudo", "pacman", "-Syu", "--noconfirm">>, "System update..."),
           Step(<<"sudo", "pacman", "-Rns", "--noconfirm", "$(pacman -Qtdq)">>, "Removing orphans..."),
           Step(<<"sudo", "pacman", "-Scc", "--noconfirm">>, "Cleaning cache...") >>
    ELSE << >>

fix_pm_operations(pm) ==
    IF pm \in {"apt", "apt-get"} THEN
        << Step(<<"sudo", "apt", "update", "--fix-missing">>, "Fixing missing packages..."),
           Step(<<"sudo", "apt", "-f", "install">>, "Fixing broken dependencies..."),
           Step(<<"sudo", "dpkg", "--configure", "-a">>, "Configuring packages..."),
           Step(<<"sudo", "apt", "check">>, "Checking package integrity..."),
           Step(<<"sudo", "apt", "autoremove", "-y">>, "Removing broken packages...") >>
    ELSE IF pm \in {"dnf", "yum"} THEN
        << Step(<<"sudo", "dnf", "check">>, "Checking system integrity..."),
           Step(<<"sudo", "dnf", "distro-sync">>, "Synchronizing packages..."),
           Step(<<"sudo", "dnf", "autoremove", "-y">>, "Removing problematic packages...") >>
    ELSE IF pm = "pacman" THEN
        << Step(<<"sudo", "pacman", "-Dk">>, "Checking dependencies..."),
           Step(<<"sudo", "pacman", "-Syu", "--noconfirm">>, "Synchronizing system..."),
           Step(<<"sudo", "pacman", "-Rns", "--noconfirm", "$(pacman -Qtdq)">>, "Removing orphaned packages...") >>
    ELSE << >>

common_fixes ==
    << Step(<<"sudo", "journalctl", "--vacuum-time=7d">>, "Cleaning system logs..."),
       Step(<<"sudo", "systemctl", "daemon-reload">>, "Reloading systemd..."),
       Step(<<"sudo", "ldconfig">>, "Updating library cache..."),
       Step(<<"sudo", "updatedb">>, "Updating locate database...") >>

\* the host fixes put before the manager's commands
fix_operations_common_first(pm) == common_fixes \o fix_pm_operations(pm)

fix_operations(pm) == fix_pm_operations(pm) \o common_fixes

cleanup_pm_operations(pm) ==
    IF pm \in {"apt", "apt-get"} THEN
        << Step(<<"sudo", "apt", "autoremove", "-y">>, "Removing unused packages..."),
           Step(<<"sudo", "apt", "autoclean">>, "Cleaning package cache..."),
           Step(<<"sudo", "apt", "clean">>, "Deep cleaning cache...") >>
    ELSE IF pm \in {"dnf", "yum"} THEN
        << Step(<<"sudo", "dnf", "autoremove", "-y">>, "Removing unused packages..."),
           Step(<<"sudo", "dnf", "clean", "all">>, "Cleaning package cache...") >>
    ELSE IF pm = "pacman" THEN
        << Step(<<"sudo", "pacman", "-Rns", "--noconfirm", "$(pacman -Qtdq)">>, "Removing orphaned packages..."),
           Step(<<"sudo", "pacman", "-Scc", "--noconfirm">>, "Cleaning package cache...") >>
    ELSE << >>

cleanup_operations ==
    << Step(<<"sudo", "journalctl", "--vacuum-time=3d">>, "Cleaning old logs..."),
       Step(<<"sudo", "find", "/tmp", "-type", "f", "-atime", "+7", "-delete">>, "Cleaning temp files..."),
       Step(<<"sudo", "find", "/var/tmp", "-type", "f", "-atime", "+7", "-delete">>, "Cleaning var temp..."),
       Step(<<"sudo", "find", "/var/log", "-name", "*.log", "-type", "f", "-mtime", "+30", "-delete">>, "Cleaning old logs..."),
       Step(<<"sudo", "find", "/home", "-name", ".cache", "-type", "d", "-exec", "rm", "-rf", "{}", "+">>, "Cleaning user caches...") >>

\* the filesystem cleanup put before the manager's commands
auto_remove_operations_cleanup_first(pm) == cleanup_operations \o cleanup_pm_operations(pm)

auto_remove_operations(pm) == cleanup_pm_operations(pm) \o cleanup_operations

boost_operations ==
    << Step(<<"sudo", "sysctl", "-w", "vm.swappiness=10">>, "Optimizing swap usage..."),
       Step(<<"sudo", "sysctl", "-w", "vm.vfs_cache_pressure=50">>, "Optimizing cache pressure..."),
       Step(<<"sudo", "sysctl", "-w", "net.core.rmem_max=16777216">>, "Optimizing network buffers..."),
       Step(<<"sudo", "sysctl", "-w", "net.core.wmem_max=16777216">>, "Optimizing network buffers..."),
       Step(<<"sudo", "systemctl", "disable", "bluetooth">>, "Disabling bluetooth service..."),
       Step(<<"sudo", "systemctl", "mask", "plymouth-quit-wait.service">>, "Optimizing boot time..."),
       Step(<<"sudo", "systemctl", "mask", "plymouth-start.service">>, "Optimizing boot time..."),
       Step(<<"sudo", "prelink", "-amR">>, "Optimizing binaries..."),
       Step(<<"sudo", "sync">>, "Syncing filesystems..."),
       Step(<<"sudo", "sysctl", "-p">>, "Applying kernel parameters...") >>

\* the list a MaintenanceOperations method hands to _execute_operations
OperationFuncs == {"update_system", "fix_system", "auto_remove_unused", "boost_system"}

\* BuildOperations with a boost_system that leaves prelink out where the
\* package manager is not of the apt family
BuildOperations_boost_per_manager(func, pm) ==
    CASE func = "update_system"      -> update_operations(pm)
      [] func = "fix_system"         -> fix_operations(pm)
      [] func = "auto_remove_unused" -> auto_remove_operations(pm)
      [] func = "boost_system"       ->
            IF pm \in {"apt", "apt-get"} THEN boost_operations
            ELSE SubSeq(boost_operations, 1, 7) \o SubSeq(boost_operations, 9, 10)

BuildOperations(func, pm) ==
    CASE func = "update_system"      -> update_operations(pm)
      [] func = "fix_system"         -> fix_operations(pm)
      [] func = "auto_remove_unused" -> auto_remove_operations(pm)
      [] func = "boost_system"       -> boost_operations

(***************************************************************************)
(* SystemManager.run_command.  proc is what subprocess.run did: it exited  *)
(* with status 0, ran past the timeout, exited with a non-zero status, or  *)
(* raised any other exception (the executable is missing, ...).            *)
(***************************************************************************)
ProcResult(kind, stdout, stderr, error) ==
    [kind |-> kind, stdout |-> stdout, stderr |-> stderr, error |-> error]

ProcResults(outs, errs) ==
    {ProcResult("exit0", o, e, "") : o \in outs, e \in errs}
      \cup {ProcResult("timeout", "", "", "")}
      \cup {ProcResult("nonzero", "", e, "") : e \in errs}
      \cup {ProcResult("oserror", "", "", e) : e \in errs}

\* run_command with subprocess.run called without check=True: a non-zero exit
\* status is not turned into CalledProcessError
run_command_unchecked(proc) ==
    CASE proc.kind \in {"exit0", "nonzero"} -> <<TRUE, proc.stdout \o proc.stderr>>
      [] proc.kind = "timeout" -> <<FALSE, "Command timed out">>
      [] proc.kind = "oserror" -> <<FALSE, "Error: " \o proc.error>>

run_command(proc) ==
    CASE proc.kind = "exit0"   -> <<TRUE, proc.stdout \o proc.stderr>>
      [] proc.kind = "timeout" -> <<FALSE, "Command timed out">>
      [] proc.kind = "nonzero" -> <<FALSE, "Command failed: " \o proc.stderr>>
      [] proc.kind = "oserror" -> <<FALSE, "Error: " \o proc.error>>

(***************************************************************************)
(* _execute_operations: the pieces of one loop iteration.                  *)
(***************************************************************************)
RECURSIVE Join(_, _)
\* sep.join(strs)
Join(strs, sep) ==
    IF Len(strs) = 0 THEN ""
    ELSE IF Len(strs) = 1 THEN strs[1]
    ELSE strs[1] \o sep \o Join(Tail(strs), sep)

\* the progress computed from the 0-based index itself: i / total_ops * 100
ProgressFromIndex(i, total_ops) == [num |-> i * 100, den |-> total_ops]

\* progress = (i + 1) / total_ops * 100, for the 0-based index i
Progress(i, total_ops) == [num |-> (i + 1) * 100, den |-> total_ops]

ProgressLess(p, q) == p.num * q.den < q.num * p.den

ProgressEquals(p, n) == p.num = n * p.den

\* the truncation with the comparison len(output) >= 200
LogOutputFrom200(output) ==
    IF Len(output) >= 200 THEN SubSeq(output, 1, 200) \o "..." ELSE output

\* output[:200] + '...' if len(output) > 200 else output
LogOutput(output) ==
    IF Len(output) > 200 THEN SubSeq(output, 1, 200) \o "..." ELSE output

\* Wall-clock time is not modelled: datetime.now() always reads "now".
LogEntry(command, description, success, output) ==
    [timestamp   |-> "now",
     command     |-> Join(command, " "),
     description |-> description,
     success     |-> success,
     output      |-> LogOutput(output)]

\* the check mark (U+2713) and the ballot x (U+2717) of the source are written
\* "v" and "x": f"{'v' if success else 'x'} {description}"
Mark(success) == IF success THEN "v" ELSE "x"

ResultLine(success, description) == Mark(success) \o " " \o description

\* a return value whose success flag is computed from the steps' marks
ReturnValueOfSteps(results) ==
    <<\A k \in 1..Len(results) : SubSeq(results[k], 1, 1) = "v", Join(results, "\n")>>

\* return True, '\n'.join(results)
ReturnValue(results) == <<TRUE, Join(results, "\n")>>

(***************************************************************************)
(* The state.                                                              *)
(*   distro, installed, package_manager : SystemManager and the path       *)
(*   operations_log                     : MaintenanceOperations            *)
(*   progress_var, status_label, log_text : the widgets                    *)
(*   threads      : the threads running worker() or _execute_operations,   *)
(*                  each with its locals and its position pc               *)
(*   launched     : number of subprocess.run calls made so far             *)
(*   requests     : number of run_operation calls made so far              *)
(* In a thread, calls records every progress_callback invocation (with the *)
(* number of commands the thread had run by then), ran every command       *)
(* handed to run_command, outcomes what subprocess.run did and what        *)
(* run_command returned for it, and log_start the length of operations_log *)
(* when _execute_operations was entered.                                   *)
(***************************************************************************)
VARIABLES distro, installed, package_manager, operations_log, threads,
          progress_var, status_label, log_text, launched, requests

vars == <<distro, installed, package_manager, operations_log, threads,
          progress_var, status_label, log_text, launched, requests>>

sysvars == <<distro, installed, package_manager, requests>>

Thread(pc, name, func, callback, operations, log_start) ==
    [pc |-> pc, operation_name |-> name, operation_func |-> func,
     callback |-> callback, operations |-> operations, i |-> 0,
     results |-> << >>, inflight |-> << >>, calls |-> << >>, ran |-> << >>,
     outcomes |-> << >>, log_start |-> log_start, ret |-> << >>]

Number(n) == [num |-> n, den |-> 1]

\* SystemManagerGUI.update_progress(progress, status)
update_progress(progress, status) ==
    /\ progress_var' = progress
    /\ status_label' = status

\* SystemManagerGUI.log_message(message)
log_message(text, message) == Append(text, "[now] " \o message \o "\n")

(***************************************************************************)
(* _execute_operations, thread w.                                          *)
(***************************************************************************)
\* top of a loop iteration: the progress callback, when one was given
ReportProgress(w) ==
    LET t == threads[w]
        total_ops == Len(t.operations)
        description == t.operations[t.i + 1][2]
        progress == Progress(t.i, total_ops)
    IN  /\ t.pc = "loop"
        /\ t.i < total_ops
        /\ IF t.callback = "none"
           THEN /\ threads' = [threads EXCEPT ![w].pc = "run"]
                /\ UNCHANGED <<progress_var, status_label>>
           ELSE /\ threads' = [threads EXCEPT ![w].pc = "run",
                                  ![w].calls = Append(@, [progress |-> progress,
                                                          description |-> description,
                                                          ran |-> Len(t.ran)])]
                /\ update_progress(progress, description)
        /\ UNCHANGED <<sysvars, operations_log, log_text, launched>>

\* self.sm.run_command(command): subprocess.run starts the process
LaunchCommand(w) ==
    LET t == threads[w]
        command == t.operations[t.i + 1][1]
    IN  /\ t.pc = "run"
        /\ threads' = [threads EXCEPT ![w].pc = "wait", ![w].inflight = command,
                                      ![w].ran = Append(@, command)]
        /\ launched' = launched + 1
        /\ UNCHANGED <<sysvars, operations_log, progress_var, status_label,
                       log_text>>

\* run_command returns; the log entry and the result line are appended
CommandReturns(w, proc) ==
    LET t == threads[w]
        description == t.operations[t.i + 1][2]
        r == run_command(proc)
        success == r[1]
        output == r[2]
    IN  /\ t.pc = "wait"
        /\ operations_log' = Append(operations_log,
               LogEntry(t.inflight, description, success, output))
        /\ threads' = [threads EXCEPT ![w].pc = "loop", ![w].inflight = << >>,
                                      ![w].i = @ + 1,
                                      ![w].results = Append(@, ResultLine(success, description)),
                                      ![w].outcomes = Append(@, [proc |-> proc, success |-> success,
                                                                output |-> output])]
        /\ UNCHANGED <<sysvars, progress_var, status_label, log_text,
                       launched>>

\* a runner that leaves the loop at the first failed step
ReturnOnFailure(w) ==
    LET t == threads[w]
    IN  /\ t.pc = "loop"
        /\ \/ t.i = Len(t.operations)
           \/ t.i > 0 /\ ~t.outcomes[t.i].success
        /\ threads' = [threads EXCEPT ![w].pc = "returned",
                                      ![w].ret = ReturnValue(t.results)]
        /\ UNCHANGED <<sysvars, operations_log, progress_var, status_label,
                       log_text, launched>>

\* the loop is over: return True, '\n'.join(results)
Return(w) ==
    LET t == threads[w]
    IN  /\ t.pc = "loop"
        /\ t.i = Len(t.operations)
        /\ threads' = [threads EXCEPT ![w].pc = "returned",
                                      ![w].ret = ReturnValue(t.results)]
        /\ UNCHANGED <<sysvars, operations_log, progress_var, status_label,
                       log_text, launched>>

(***************************************************************************)
(* SystemManagerGUI: the four buttons, run_operation and its worker.       *)
(***************************************************************************)
\* run_operation that starts no thread while an earlier worker is running
run_operation_single_flight(ts, operation_func, operation_name) ==
    IF \E w \in DOMAIN ts : ts[w].pc # "done"
    THEN ts
    ELSE Append(ts, Thread("start", operation_name, operation_func,
                           "update_progress", << >>, 0))

\* threading.Thread(target=worker, daemon=True).start()
run_operation(ts, operation_func, operation_name) ==
    Append(ts, Thread("start", operation_name, operation_func,
                      "update_progress", << >>, 0))

\* Spec follows the first and the second operation that are triggered.
WorkerIds == {1, 2}

RunOperation(operation_func, operation_name) ==
    /\ Len(threads) + 1 \in WorkerIds
    /\ threads' = run_operation(threads, operation_func, operation_name)
    /\ requests' = requests + 1
    /\ UNCHANGED <<distro, installed, package_manager, operations_log,
                   progress_var, status_label, log_text, launched>>

\* the button handlers
update_system == RunOperation("update_system", "System Update")

fix_system == RunOperation("fix_system", "System Fix")

auto_remove == RunOperation("auto_remove_unused", "Cleanup")

\* messagebox.askyesno answers yes or no
boost_system ==
    \E answer \in BOOLEAN :
        IF answer THEN RunOperation("boost_system", "Performance Boost")
        ELSE UNCHANGED vars

\* worker: self.log_message(f"Starting {operation_name}...")
WorkerStart(w) ==
    LET t == threads[w]
    IN  /\ t.pc = "start"
        /\ log_text' = log_message(log_text,
                                   "Starting " \o t.operation_name \o "...")
        /\ threads' = [threads EXCEPT ![w].pc = "call"]
        /\ UNCHANGED <<sysvars, operations_log, progress_var, status_label,
                       launched>>

\* worker: self.progress_var.set(0), then operation_func(self.update_progress)
\* builds its list and enters _execute_operations
WorkerCall(w) ==
    LET t == threads[w]
    IN  /\ t.pc = "call"
        /\ progress_var' = Number(0)
        /\ threads' = [threads EXCEPT
               ![w].pc = "loop",
               ![w].operations = BuildOperations(t.operation_func, package_manager),
               ![w].log_start = Len(operations_log)]
        /\ UNCHANGED <<sysvars, operations_log, status_label, log_text, launched>>

\* worker: if success: ... else: ..., the first log_message of the branch
StatusMessage(success, operation_name) ==
    IF success
    THEN Mark(TRUE) \o " " \o operation_name \o " completed successfully"
    ELSE Mark(FALSE) \o " " \o operation_name \o " failed"

WorkerReportStatus(w) ==
    LET t == threads[w]
    IN  /\ t.pc = "returned"
        /\ log_text' = log_message(log_text,
                                   StatusMessage(t.ret[1], t.operation_name))
        /\ threads' = [threads EXCEPT ![w].pc = "result"]
        /\ UNCHANGED <<sysvars, operations_log, progress_var, status_label,
                       launched>>

\* worker: self.log_message(result)
WorkerReportResult(w) ==
    LET t == threads[w]
    IN  /\ t.pc = "result"
        /\ log_text' = log_message(log_text, t.ret[2])
        /\ threads' = [threads EXCEPT ![w].pc = "finish"]
        /\ UNCHANGED <<sysvars, operations_log, progress_var, status_label,
                       launched>>

\* worker: progress 100 and status "<name> completed" (the system
\* information labels that update_system_info then refreshes are not modelled)
WorkerFinish(w) ==
    LET t == threads[w]
    IN  /\ t.pc = "finish"
        /\ progress_var' = Number(100)
        /\ status_label' = t.operation_name \o " completed"
        /\ threads' = [threads EXCEPT ![w].pc = "done"]
        /\ UNCHANGED <<sysvars, operations_log, log_text, launched>>

(***************************************************************************)
(* Hosts: a host of a distribution has the package managers of its         *)
(* distribution on the path (none on an unknown distribution).             *)
(***************************************************************************)
RECURSIVE Range(_)
Range(seq) == IF Len(seq) = 0 THEN {} ELSE {Head(seq)} \cup Range(Tail(seq))

NativeManagers(d) ==
    IF d \in DOMAIN supported_distros THEN Range(supported_distros[d]) ELSE {}

InitWidgets ==
    /\ progress_var = Number(0)
    /\ status_label = "Ready"
    /\ log_text = << >>

\* the name each button handler passes to run_operation
OperationName(operation_func) ==
    CASE operation_func = "update_system"      -> "System Update"
      [] operation_func = "fix_system"         -> "System Fix"
      [] operation_func = "auto_remove_unused" -> "Cleanup"
      [] operation_func = "boost_system"       -> "Performance Boost"

(***************************************************************************)
(* SpecRun: one run of the operation runner, with every outcome of every   *)
(* command: either a direct call of _execute_operations(operations,        *)
(* progress_callback) on any list of at most MaxSteps steps, with or       *)
(* without a callback, or one worker of run_operation on any host where    *)
(* the list of its operation has at most MaxSteps steps.                   *)
(***************************************************************************)
StepPool == {update_operations("apt")[1], boost_operations[9]}

RECURSIVE StepLists(_)
StepLists(n) ==
    IF n = 0 THEN {<< >>}
    ELSE LET shorter == StepLists(n - 1)
         IN  shorter \cup {Append(l, s) : l \in {x \in shorter : Len(x) = n - 1}, s \in StepPool}

RunResults == ProcResults({"done"}, {"", "E: failed"})

\* the log an earlier run left behind
EarlierLog == << LogEntry(boost_operations[9][1], boost_operations[9][2], TRUE, "") >>

InitDirectCall ==
    /\ distro = "unknown"
    /\ \E operations \in StepLists(MaxSteps), callback \in {"none", "update_progress"} :
          threads = << Thread("loop", "", "", callback, operations, Len(operations_log)) >>
    /\ requests = 0

InitWorker ==
    /\ distro \in Distros
    /\ \E f \in OperationFuncs :
          /\ Len(BuildOperations(f, get_package_manager(distro, NativeManagers(distro)))) <= MaxSteps
          /\ threads = run_operation(<< >>, f, OperationName(f))
    /\ requests = 1

InitRun ==
    /\ operations_log \in {<< >>, EarlierLog}
    /\ InitDirectCall \/ InitWorker
    /\ installed = NativeManagers(distro)
    /\ package_manager = get_package_manager(distro, installed)
    /\ InitWidgets
    /\ launched = 0

NextRun ==
    \/ WorkerStart(1)
    \/ WorkerCall(1)
    \/ ReportProgress(1)
    \/ LaunchCommand(1)
    \/ \E proc \in RunResults : CommandReturns(1, proc)
    \/ Return(1)
    \/ WorkerReportStatus(1)
    \/ WorkerReportResult(1)
    \/ WorkerFinish(1)

SpecRun == InitRun /\ [][NextRun]_vars

(***************************************************************************)
(* SpecTrunc: one step whose command produces any output, error output or  *)
(* exception text of 0 to MaxOutLen characters.                            *)
(***************************************************************************)
Alphabet == <<"a", "b", "c">>

RECURSIVE Chars(_, _, _)
\* the characters from position lo to position hi of the text with this
\* seed, whose k-th character is Alphabet[((k + seed) % 3) + 1]
Chars(seed, lo, hi) ==
    IF lo > hi THEN ""
    ELSE IF lo = hi THEN Alphabet[((lo + seed) % 3) + 1]
    ELSE LET mid == (lo + hi) \div 2
         IN  Chars(seed, lo, mid) \o Chars(seed, mid + 1, hi)

Text(seed, n) == Chars(seed, 1, n)

LongTexts == {Text(seed, n) : seed \in {0, 1}, n \in 0..MaxOutLen}

TruncResults == ProcResults(LongTexts, {""}) \cup ProcResults({""}, LongTexts)

InitTrunc ==
    /\ distro = "unknown"
    /\ installed = {}
    /\ package_manager = get_package_manager(distro, installed)
    /\ operations_log = << >>
    /\ \E s \in StepPool :
          threads = << Thread("loop", "", "", "none", << s >>, 0) >>
    /\ InitWidgets
    /\ launched = 0
    /\ requests = 0

NextTrunc ==
    \/ ReportProgress(1)
    \/ LaunchCommand(1)
    \/ \E proc \in TruncResults : CommandReturns(1, proc)
    \/ Return(1)

SpecTrunc == InitTrunc /\ [][NextTrunc]_vars

(***************************************************************************)
(* Spec: the program after SystemManagerGUI.__init__ on an Arch host and   *)
(* on an openSUSE host, with any sequence of button clicks.  The except    *)
(* branch of worker is not modelled: nothing the worker calls raises       *)
(* (run_command catches every exception).  Two operations are triggered    *)
(* and at most MaxCommands commands are launched.                          *)
(***************************************************************************)
SpecDistros == {"arch", "opensuse"}

\* In Spec a command exits with status 0 or with another status; timeouts and
\* launch failures are the business of SpecRun.
GuiResults == {r \in ProcResults({""}, {""}) : r.kind \in {"exit0", "nonzero"}}

Init ==
    /\ distro \in SpecDistros
    /\ installed = NativeManagers(distro)
    /\ package_manager = get_package_manager(distro, installed)
    /\ operations_log = << >>
    /\ threads = << >>
    /\ InitWidgets
    /\ launched = 0
    /\ requests = 0

Next ==
    \/ update_system
    \/ fix_system
    \/ auto_remove
    \/ boost_system
    \/ \E w \in DOMAIN threads :
          \/ WorkerStart(w)
          \/ WorkerCall(w)
          \/ ReportProgress(w)
          \/ launched < MaxCommands /\ LaunchCommand(w)
          \/ \E proc \in GuiResults : CommandReturns(w, proc)
          \/ Return(w)
          \/ WorkerReportStatus(w)
          \/ WorkerReportResult(w)
          \/ WorkerFinish(w)

Spec == Init /\ [][Next]_vars

(***************************************************************************)
(* SpecCatalog: the program after SystemManagerGUI.__init__ on a host of   *)
(* any distribution with any set of package managers on the path, one      *)
(* button click, and its worker up to the launch of its first command.     *)
(***************************************************************************)
InitCatalog ==
    /\ distro \in Distros
    /\ installed \in SUBSET Managers
    /\ package_manager = get_package_manager(distro, installed)
    /\ operations_log = << >>
    /\ threads = << >>
    /\ InitWidgets
    /\ launched = 0
    /\ requests = 0

NextCatalog ==
    \/ threads = << >> /\ update_system
    \/ threads = << >> /\ fix_system
    \/ threads = << >> /\ auto_remove
    \/ threads = << >> /\ boost_system
    \/ \E w \in DOMAIN threads :
          \/ WorkerStart(w)
          \/ WorkerCall(w)
          \/ ReportProgress(w)

SpecCatalog == InitCatalog /\ [][NextCatalog]_vars

(***************************************************************************)
(* Properties of the operation runner (SpecRun).                           *)
(***************************************************************************)
Returned(t) == t.pc = "returned"

\* C1: a run of _execute_operations over N >= 1 steps with a progress
\* callback calls it once per step, before that step's command is run, with
\* the percentages k/N*100 for k = 1..N: strictly increasing from call to
\* call, and exactly 100 on the call for the last step; when the run returns
\* the callback has been called exactly N times.
C1_ProgressCallbackPerStep ==
    \A w \in DOMAIN threads :
        LET t == threads[w]
            N == Len(t.operations)
        IN  (t.callback # "none" /\ N >= 1) =>
              /\ \A k \in 1..Len(t.calls) :
                    /\ t.calls[k].ran = k - 1
                    /\ t.calls[k].description = t.operations[k][2]
                    /\ t.calls[k].progress.num * N = k * 100 * t.calls[k].progress.den
                    /\ k > 1 => ProgressLess(t.calls[k - 1].progress, t.calls[k].progress)
                    /\ k = N => ProgressEquals(t.calls[k].progress, 100)
              /\ Len(t.calls) = IF t.pc \in {"run", "wait"} THEN t.i + 1 ELSE t.i
              /\ Returned(t) => Len(t.calls) = N

C1_Witness ==
    \E w \in DOMAIN threads :
        LET t == threads[w]
        IN  /\ Returned(t)
            /\ t.callback # "none"
            /\ Len(t.operations) = 3
            /\ Len(t.calls) = 3
            /\ ~t.outcomes[1].success
            /\ ProgressEquals(progress_var, 100)

\* C2: when a run of _execute_operations over N steps returns, every step's
\* command has been run exactly once, in list order, whatever the earlier
\* steps did, and operations_log has grown by exactly N entries, in execution
\* order, whose success flags are the steps' outcomes.
C2_AllStepsRunAndLogged ==
    \A w \in DOMAIN threads :
        LET t == threads[w]
            N == Len(t.operations)
        IN  Returned(t) =>
              /\ t.ran = [k \in 1..N |-> t.operations[k][1]]
              /\ Len(t.outcomes) = N
              /\ Len(operations_log) = t.log_start + N
              /\ \A k \in 1..N :
                    LET e == operations_log[t.log_start + k]
                    IN  /\ e.command = Join(t.operations[k][1], " ")
                        /\ e.description = t.operations[k][2]
                        /\ e.success = t.outcomes[k].success

C2_Witness ==
    \E w \in DOMAIN threads :
        LET t == threads[w]
        IN  /\ Returned(t)
            /\ Len(t.operations) = 3
            /\ t.log_start = 1
            /\ Len(operations_log) = 4
            /\ ~t.outcomes[1].success
            /\ t.outcomes[2].success
            /\ ~t.outcomes[3].success

\* C4: run_command always returns a pair: (false, "Command timed out") on a
\* timeout, (false, text ending in the captured error output) on a non-zero
\* exit, (false, "Error: ...") on any other failure to launch, and true only
\* on a zero exit.  The step then has a log entry with success = false that
\* carries this message, and the runner goes on to the next step.
C4_FailuresBecomeData ==
    \A w \in DOMAIN threads :
        LET t == threads[w]
            N == Len(t.operations)
        IN  /\ \A k \in 1..Len(t.outcomes) :
                  LET o == t.outcomes[k]
                      e == operations_log[t.log_start + k]
                      n == Len(o.output)
                  IN  /\ o.success \in BOOLEAN
                      /\ o.success <=> o.proc.kind = "exit0"
                      /\ o.proc.kind = "timeout" => o.output = "Command timed out"
                      /\ o.proc.kind = "nonzero" =>
                            /\ n >= Len(o.proc.stderr)
                            /\ SubSeq(o.output, n - Len(o.proc.stderr) + 1, n) = o.proc.stderr
                            /\ SubSeq(o.output, 1, 16) = "Command failed: "
                      /\ o.proc.kind = "oserror" =>
                            /\ SubSeq(o.output, 1, 7) = "Error: "
                            /\ SubSeq(o.output, 8, n) = o.proc.error
                      /\ e.success = o.success
                      /\ n <= 200 => e.output = o.output
            /\ Returned(t) => Len(t.outcomes) = N
            /\ (t.pc = "loop" /\ t.i < N) => ENABLED ReportProgress(w)

C4_Witness ==
    \E w \in DOMAIN threads :
        LET t == threads[w]
        IN  /\ Returned(t)
            /\ Len(t.outcomes) = 3
            /\ t.outcomes[1].proc.kind = "timeout"
            /\ t.outcomes[2].proc.kind = "nonzero"
            /\ t.outcomes[3].proc.kind = "oserror"
            /\ \A k \in 1..3 : ~operations_log[t.log_start + k].success

(***************************************************************************)
(* Properties of the stored output (SpecTrunc).                            *)
(***************************************************************************)
\* C9: the output stored in a log entry is the command's output itself when
\* that has at most 200 characters, and its first 200 characters followed by
\* "..." when it has more: 200 characters are stored verbatim, 201 are cut.
C9_OutputTruncatedAt200 ==
    \A w \in DOMAIN threads :
        LET t == threads[w]
        IN  \A k \in 1..Len(t.outcomes) :
                LET output == t.outcomes[k].output
                    stored == operations_log[t.log_start + k].output
                IN  /\ Len(output) <= 200 => stored = output
                    /\ Len(output) > 200 =>
                          /\ Len(stored) = 203
                          /\ SubSeq(stored, 1, 200) = SubSeq(output, 1, 200)
                          /\ SubSeq(stored, 201, 203) = "..."

C9_Witness ==
    \E w \in DOMAIN threads :
        LET t == threads[w]
        IN  /\ Len(t.outcomes) = 1
            /\ Len(t.outcomes[1].output) = 201
            /\ Len(operations_log[t.log_start + 1].output) = 203
            /\ operations_log[t.log_start + 1].output # t.outcomes[1].output \o ".."

(***************************************************************************)
(* Properties of the worker (SpecRun) and of concurrent workers (Spec).    *)
(***************************************************************************)
IsWorker(t) == t.operation_func \in OperationFuncs

Logged(message) == \E m \in 1..Len(log_text) : log_text[m] = "[now] " \o message \o "\n"

\* C3: the success value _execute_operations returns, and with it
\* update_system, fix_system, auto_remove_unused and boost_system, is true
\* whatever steps failed, also when all failed; the worker then logs
\* "<name> completed successfully", never "<name> failed", and ends with the
\* status "<name> completed"; the failures show only as the x marks of the
\* summary and as success = false in the log.
C3_OverallSuccessAlwaysTrue ==
    /\ \A w \in DOMAIN threads :
          LET t == threads[w]
              N == Len(t.outcomes)
          IN  /\ Len(t.ret) = 2 =>
                    /\ t.ret[1] = TRUE
                    /\ t.ret[2] = Join([k \in 1..N |->
                                          (IF t.outcomes[k].success THEN "v " ELSE "x ")
                                              \o t.operations[k][2]], "\n")
              /\ (IsWorker(t) /\ t.pc \in {"result", "finish", "done"}) =>
                    Logged("v " \o t.operation_name \o " completed successfully")
              /\ (IsWorker(t) /\ t.pc = "done") =>
                    /\ Logged(t.ret[2])
                    /\ status_label = t.operation_name \o " completed"
    /\ \A f \in OperationFuncs : ~Logged("x " \o OperationName(f) \o " failed")

C3_Witness ==
    \E w \in DOMAIN threads :
        LET t == threads[w]
        IN  /\ IsWorker(t)
            /\ t.pc = "done"
            /\ Len(t.outcomes) = 3
            /\ \A k \in 1..3 : ~t.outcomes[k].success
            /\ t.ret[1] = TRUE
            /\ Logged("v System Update completed successfully")

\* C5: every call of run_operation starts its own worker thread at once,
\* whatever the earlier workers are doing: no request is rejected or queued
\* (there are as many threads as requests), and a worker that is about to
\* run a command is never held back by a command another worker has in
\* flight.
C5_EveryRequestStartsAWorker ==
    /\ Len(threads) = requests
    /\ \A w \in DOMAIN threads :
          /\ threads[w].pc = "start" => ENABLED WorkerStart(w)
          /\ threads[w].pc = "run" => ENABLED LaunchCommand(w)

\* two workers with a package-manager command in flight at the same time
C5_Witness ==
    \E w1, w2 \in DOMAIN threads :
        /\ w1 # w2
        /\ threads[w1].pc = "wait"
        /\ threads[w2].pc = "wait"
        /\ threads[w1].inflight[2] = "pacman"
        /\ threads[w2].inflight[2] = "pacman"

(***************************************************************************)
(* Properties of the package manager and of the step lists (SpecCatalog).  *)
(***************************************************************************)
\* the worker of operation f has built its step list
Built(t, f) == t.operation_func = f /\ t.pc \notin {"start", "call"}

\* what a step does, read off its command
Tool(step) == step[1][2]

Verb(step) == IF Len(step[1]) >= 3 THEN step[1][3] ELSE ""

PackageTools == {"apt", "apt-get", "dpkg", "dnf", "yum", "pacman", "zypper"}

IsRefreshIndex(step) ==
    Tool(step) \in PackageTools /\ Verb(step) \in {"update", "check-update", "makecache", "-Sy", "-Syu", "refresh"}

IsUpgrade(step) ==
    Tool(step) \in PackageTools /\ Verb(step) \in {"upgrade", "-Su", "-Syu"}

IsDistUpgrade(step) ==
    Tool(step) \in PackageTools /\ Verb(step) \in {"dist-upgrade", "full-upgrade", "distro-sync", "dup"}

IsOrphanRemoval(step) ==
    Tool(step) \in PackageTools /\ Verb(step) \in {"autoremove", "-Rns"}

IsCacheClean(step) ==
    Tool(step) \in PackageTools /\ Verb(step) \in {"autoclean", "clean", "-Sc", "-Scc"}

NotDistUpgrade(step) == ~IsDistUpgrade(step)

AptFamily == {"apt", "apt-get"}

\* C6: for every package manager get_package_manager returns, the list of
\* update_system is a refresh-index step, an upgrade step, an orphan-removal
\* step and a cache-clean step in that order (pacman's -Syu, which refreshes
\* the index and upgrades, counts as both), with a distribution-upgrade step
\* after the upgrade step if and only if the manager is apt (apt or apt-get,
\* which run the same commands); the list is never empty.
C6_UpdateListShape ==
    \A w \in DOMAIN threads :
        LET t == threads[w]
            ops == t.operations
            core == SelectSeq(ops, NotDistUpgrade)
            n == Len(core)
        IN  Built(t, "update_system") =>
              /\ ops # << >>
              /\ n \in {3, 4}
              /\ IsRefreshIndex(core[1])
              /\ IsUpgrade(core[n - 2])
              /\ IsOrphanRemoval(core[n - 1])
              /\ IsCacheClean(core[n])
              /\ IF package_manager \in AptFamily
                 THEN Len(ops) = n + 1 /\ IsDistUpgrade(ops[3])
                 ELSE Len(ops) = n

\* C7 as claimed: for every package manager the list of fix_system ends with
\* five host fixes, none of them a package-manager command, after the
\* manager-specific repair commands.
C7_FiveHostFixes ==
    \A w \in DOMAIN threads :
        LET t == threads[w]
            ops == t.operations
            N == Len(ops)
        IN  Built(t, "fix_system") =>
              /\ N >= 5
              /\ \A k \in 1..N : (Tool(ops[k]) \notin PackageTools) <=> (k > N - 5)

\* C7, amended: for every package manager the list of fix_system is the
\* manager-specific repair commands (none for zypper) followed by four host
\* fixes, the same four in the same order for every package manager: journal
\* vacuum to 7 days, systemd daemon-reload, ldconfig, updatedb.
C7_FourHostFixes ==
    \A w \in DOMAIN threads :
        LET t == threads[w]
            ops == t.operations
            N == Len(ops)
        IN  Built(t, "fix_system") =>
              /\ N >= 4
              /\ \A k \in 1..N : (Tool(ops[k]) \notin PackageTools) <=> (k > N - 4)
              /\ ops[N - 3][1] = <<"sudo", "journalctl", "--vacuum-time=7d">>
              /\ ops[N - 2][1] = <<"sudo", "systemctl", "daemon-reload">>
              /\ ops[N - 1][1] = <<"sudo", "ldconfig">>
              /\ ops[N][1] = <<"sudo", "updatedb">>
              /\ (N = 4) <=> (package_manager = "zypper")

C7_Witness ==
    \E w \in DOMAIN threads :
        LET t == threads[w]
        IN  /\ Built(t, "fix_system")
            /\ package_manager = "pacman"
            /\ Len(t.operations) = 7
            /\ Tool(t.operations[3]) = "pacman"
            /\ Tool(t.operations[4]) = "journalctl"

\* C8: on a distribution with a priority list, package_manager is the first
\* manager of the list that is on the path, for every set of managers on the
\* path; it is apt when none of the list is on the path and when the
\* distribution is unknown.
C8_FirstInstalledManager ==
    LET known == distro \in DOMAIN supported_distros
        pms == IF known THEN supported_distros[distro] ELSE << >>
    IN  IF \E k \in 1..Len(pms) : pms[k] \in installed
        THEN \E k \in 1..Len(pms) :
                /\ package_manager = pms[k]
                /\ pms[k] \in installed
                /\ \A j \in 1..(k - 1) : pms[j] \notin installed
        ELSE package_manager = "apt"

C8_Witness ==
    /\ distro = "centos"
    /\ installed = {"dnf", "apt", "zypper"}
    /\ package_manager = "dnf"
    /\ \E w \in DOMAIN threads : Built(threads[w], "update_system")

\* C10: with pacman the list of auto_remove_unused is exactly seven steps:
\* pacman removes the orphans, pacman cleans its cache, then the journal is
\* vacuumed to 3 days and find cleans /tmp, /var/tmp, the old .log files of
\* /var/log and the .cache directories of /home, in that order.
C10_PacmanCleanupList ==
    \A w \in DOMAIN threads :
        LET t == threads[w]
            ops == t.operations
        IN  (Built(t, "auto_remove_unused") /\ package_manager = "pacman") =>
              /\ Len(ops) = 7
              /\ Tool(ops[1]) = "pacman" /\ IsOrphanRemoval(ops[1])
              /\ Tool(ops[2]) = "pacman" /\ IsCacheClean(ops[2])
              /\ ops[3][1] = <<"sudo", "journalctl", "--vacuum-time=3d">>
              /\ \A k \in 4..7 : Tool(ops[k]) = "find"
              /\ Verb(ops[4]) = "/tmp"
              /\ Verb(ops[5]) = "/var/tmp"
              /\ Verb(ops[6]) = "/var/log" /\ ops[6][1][5] = "*.log"
              /\ Verb(ops[7]) = "/home" /\ ops[7][1][5] = ".cache"

C10_Witness ==
    \E w \in DOMAIN threads :
        LET t == threads[w]
        IN  /\ Built(t, "auto_remove_unused")
            /\ package_manager = "pacman"
            /\ distro = "arch"
            /\ t.pc = "run"
            /\ status_label = "Removing orphaned packages..."

\* C11: whatever the detected distro, the installed managers and the selected
\* package manager, the list boost_system builds is the same 10 commands in
\* the same order: four sysctl -w settings (swappiness, cache pressure, the
\* two network buffers), bluetooth disabled, the two plymouth units masked,
\* prelink, sync and sysctl -p.
C11_BoostListFixed ==
    \A w \in DOMAIN threads :
        LET t == threads[w]
            ops == t.operations
        IN  Built(t, "boost_system") =>
              /\ Len(ops) = 10
              /\ [k \in 1..10 |-> ops[k][1]] =
                    << <<"sudo", "sysctl", "-w", "vm.swappiness=10">>,
                       <<"sudo", "sysctl", "-w", "vm.vfs_cache_pressure=50">>,
                       <<"sudo", "sysctl", "-w", "net.core.rmem_max=16777216">>,
                       <<"sudo", "sysctl", "-w", "net.core.wmem_max=16777216">>,
                       <<"sudo", "systemctl", "disable", "bluetooth">>,
                       <<"sudo", "systemctl", "mask", "plymouth-quit-wait.service">>,
                       <<"sudo", "systemctl", "mask", "plymouth-start.service">>,
                       <<"sudo", "prelink", "-amR">>,
                       <<"sudo", "sync">>,
                       <<"sudo", "sysctl", "-p">> >>

C11_Witness ==
    \E w \in DOMAIN threads :
        LET t == threads[w]
        IN  /\ Built(t, "boost_system")
            /\ distro = "fedora"
            /\ package_manager = "dnf"
            /\ Len(t.operations) = 10
            /\ t.pc = "run"
            /\ status_label = "Optimizing swap usage..."

(***************************************************************************)
(* Who writes the shared state (Spec).  A step of a worker thread is a     *)
(* step that moves that worker: every statement of worker and of           *)
(* _execute_operations changes the worker's record.  The steps of the      *)
(* thread that owns the user interface are the button handlers.            *)
(***************************************************************************)
WorkerStep == \E w \in DOMAIN threads : threads'[w] # threads[w]

\* the progress value, the status text, the log pane and the operations log
shared == <<progress_var, status_label, log_text, operations_log>>

\* C12: no step of a worker thread writes the progress value, the status
\* text, the log pane or the operations log: these are written only by steps
\* of the thread that owns the user interface, to which workers hand their
\* updates over.
C12_OnlyUIThreadWrites == [][WorkerStep => UNCHANGED shared]_vars

\* two workers have each written the progress display and appended to the
\* operations log themselves, the second while the first was still running
C12_TwoWorkersWroteDirectly ==
    \E v, w \in DOMAIN threads :
        /\ v # w
        /\ threads[v].calls # << >> /\ threads[w].calls # << >>
        /\ threads[v].outcomes # << >> /\ threads[w].outcomes # << >>
        /\ threads[v].pc = "run" /\ threads[w].pc = "loop"
        /\ Len(operations_log) = 2
        /\ operations_log[1].command = Join(threads[v].operations[1][1], " ")
        /\ operations_log[2].command = Join(threads[w].operations[1][1], " ")

====
